---------------------------- MODULE Spec2Model ----------------------------
(***************************************************************************)
(* A model of 3Dmath.h: 3-component vectors, 4x4 row-major matrices and    *)
(* the transformation constructors built on them.                          *)
(*                                                                         *)
(* Scalars (seFloat) are modelled as exact values num/den * 2^exp, together *)
(* with the IEEE-754 special values that a division by zero produces       *)
(* (NaN, +Inf, -Inf).  Rounding and the exponent range of binary32 are not *)
(* modelled: every input set below holds values on which the arithmetic    *)
(* of the program is exact.  The byte-level layout of binary32 is          *)
(* modelled where the program depends on it (memset in seM4Fill).          *)
(***************************************************************************)
EXTENDS Integers, Sequences, FiniteSets, TLC

(***************************************************************************)
(* Bounds of the model.                                                    *)
(***************************************************************************)
MaxCoord == 2          \* vector components range over -MaxCoord..MaxCoord
MaxLen == 2            \* scale factors range over -MaxLen..MaxLen (and halves)
MaxFill == 70          \* fill arguments range over -MaxFill..MaxFill (and halves)
MaxTurns == 4          \* angles range over multiples of 90 in -90*MaxTurns..90*MaxTurns
MaxEntry == 1          \* nonzero entry of the unit input matrices: 1..MaxEntry

(***************************************************************************)
(* seFloat: the scalar type.                                               *)
(* A finite value is [num, den, exp] = num/den * 2^exp with num and den odd  *)
(* and coprime, den > 0 (zero is [0, 1, 0]).  den = 0 marks a special      *)
(* value: num = 0 is NaN, num = 1 is +Inf, num = -1 is -Inf.               *)
(***************************************************************************)
Abs(i) == IF i < 0 THEN -i ELSE i

Sign(i) == IF i < 0 THEN -1 ELSE IF i > 0 THEN 1 ELSE 0

RECURSIVE GCD(_, _)
GCD(a, b) == IF b = 0 THEN a ELSE GCD(b, a % b)

RECURSIVE Pow2(_)
Pow2(k) == IF k = 0 THEN 1 ELSE 2 * Pow2(k - 1)

RECURSIVE Twos(_)
Twos(m) == IF m % 2 = 0 THEN 1 + Twos(m \div 2) ELSE 0

NaN == [num |-> 0, den |-> 0, exp |-> 0]

PosInf == [num |-> 1, den |-> 0, exp |-> 0]

NegInf == [num |-> -1, den |-> 0, exp |-> 0]

Norm(n, d, e) ==
    IF d = 0 THEN [num |-> Sign(n), den |-> 0, exp |-> 0]
    ELSE IF n = 0 THEN [num |-> 0, den |-> 1, exp |-> 0]
    ELSE LET g  == GCD(Abs(n), d)
             n1 == Abs(n) \div g
             d1 == d \div g
             tn == Twos(n1)
             td == Twos(d1)
         IN  [num |-> Sign(n) * (n1 \div Pow2(tn)), den |-> d1 \div Pow2(td),
              exp |-> e + tn - td]

Flt(i) == Norm(i, 1, 0)

Ratio(p, q) == Norm(p, q, 0)

Zero == Flt(0)

One == Flt(1)

IsNaN(a) == a.den = 0 /\ a.num = 0

IsInf(a) == a.den = 0 /\ a.num # 0

IsFinite(a) == a.den # 0

IsZero(a) == a.den # 0 /\ a.num = 0

\* fabsf
FAbs(a) == [num |-> Abs(a.num), den |-> a.den, exp |-> a.exp]

\* the C comparison a == b: false whenever an operand is NaN
FEq(a, b) == ~IsNaN(a) /\ ~IsNaN(b) /\ a = b

FNeg(a) == [num |-> -a.num, den |-> a.den, exp |-> a.exp]

FMul(a, b) ==
    IF a.den = 0 \/ b.den = 0 THEN Norm(a.num * b.num, 0, 0)
    ELSE Norm(a.num * b.num, a.den * b.den, a.exp + b.exp)

FAdd(a, b) ==
    IF IsNaN(a) \/ IsNaN(b) THEN NaN
    ELSE IF IsInf(a) /\ IsInf(b) THEN (IF a.num = b.num THEN a ELSE NaN)
    ELSE IF IsInf(a) THEN a
    ELSE IF IsInf(b) THEN b
    ELSE LET m == IF a.exp < b.exp THEN a.exp ELSE b.exp
         IN  Norm(a.num * Pow2(a.exp - m) * b.den + b.num * Pow2(b.exp - m) * a.den,
                  a.den * b.den, m)

FSub(a, b) == FAdd(a, FNeg(b))

\* a / b; a zero divisor is +0 (the program only divides by a sqrtf result)
FDiv(a, b) ==
    IF IsNaN(a) \/ IsNaN(b) THEN NaN
    ELSE IF IsInf(a) THEN (IF IsInf(b) THEN NaN
                           ELSE Norm(a.num * (IF b.num < 0 THEN -1 ELSE 1), 0, 0))
    ELSE IF IsInf(b) THEN Zero
    ELSE IF b.num = 0 THEN Norm(a.num, 0, 0)
    ELSE Norm(a.num * b.den * Sign(b.num), a.den * Abs(b.num), a.exp - b.exp)

IsSquareInt(i) == \E r \in 0..i : r * r = i

ISqrt(i) == CHOOSE r \in 0..i : r * r = i

\* the values whose square root is exact in the model
HasExactSqrt(a) ==
    IF a.den = 0 \/ a.num < 0 THEN TRUE
    ELSE a.exp % 2 = 0 /\ IsSquareInt(a.num) /\ IsSquareInt(a.den)

\* sqrtf
FSqrt(a) ==
    IF IsNaN(a) \/ a.num < 0 THEN NaN
    ELSE IF IsInf(a) THEN PosInf
    ELSE [num |-> ISqrt(a.num), den |-> ISqrt(a.den),
          exp |-> CHOOSE h \in {a.exp \div 2} : 2 * h = a.exp]

\* SE_SQUARED(n) (n*n)
SE_SQUARED(a) == FMul(a, a)

(***************************************************************************)
(* 3D vectors (seVec3).                                                    *)
(***************************************************************************)
seV3Assign(x, y, z) == [x |-> x, y |-> y, z |-> z]

seV3Length(v) ==
    FSqrt(FAdd(FAdd(SE_SQUARED(v.x), SE_SQUARED(v.y)), SE_SQUARED(v.z)))

seV3Dot(v1, v2) ==
    FAdd(FAdd(FMul(v1.x, v2.x), FMul(v1.y, v2.y)), FMul(v1.z, v2.z))

\* seV3Cross with a sign slip in the z component
seV3CrossSignSlip(v1, v2) ==
    [x |-> FSub(FMul(v1.y, v2.z), FMul(v1.z, v2.y)),
     y |-> FSub(FMul(v1.z, v2.x), FMul(v1.x, v2.z)),
     z |-> FAdd(FMul(v1.x, v2.y), FMul(v1.y, v2.x))]

seV3Cross(v1, v2) ==
    [x |-> FSub(FMul(v1.y, v2.z), FMul(v1.z, v2.y)),
     y |-> FSub(FMul(v1.z, v2.x), FMul(v1.x, v2.z)),
     z |-> FSub(FMul(v1.x, v2.y), FMul(v1.y, v2.x))]

\* seV3Normalize with a guard that returns a zero-length vector unchanged
seV3NormalizeGuarded(v) ==
    LET len == seV3Length(v)
    IN  IF IsZero(len) THEN v
        ELSE [x |-> FDiv(v.x, len), y |-> FDiv(v.y, len), z |-> FDiv(v.z, len)]

seV3Normalize(v) ==
    LET len == seV3Length(v)
    IN  [x |-> FDiv(v.x, len), y |-> FDiv(v.y, len), z |-> FDiv(v.z, len)]

\* seV3Scale without the call of seV3Normalize
seV3ScalePlain(v, len) ==
    [x |-> FMul(v.x, len), y |-> FMul(v.y, len), z |-> FMul(v.z, len)]

seV3Scale(v, len) ==
    LET u == seV3Normalize(v)
    IN  [x |-> FMul(u.x, len), y |-> FMul(u.y, len), z |-> FMul(u.z, len)]

seV3Add(v1, v2) ==
    [x |-> FAdd(v1.x, v2.x), y |-> FAdd(v1.y, v2.y), z |-> FAdd(v1.z, v2.z)]

seV3Subtract(v1, v2) ==
    [x |-> FSub(v1.x, v2.x), y |-> FSub(v1.y, v2.y), z |-> FSub(v1.z, v2.z)]

\* seV3MultiplyM3 reading the matrix column by column
seV3MultiplyM3Transposed(m, v) ==
    [x |-> FAdd(FAdd(FMul(m[0], v.x), FMul(m[3], v.y)), FMul(m[6], v.z)),
     y |-> FAdd(FAdd(FMul(m[1], v.x), FMul(m[4], v.y)), FMul(m[7], v.z)),
     z |-> FAdd(FAdd(FMul(m[2], v.x), FMul(m[5], v.y)), FMul(m[8], v.z))]

seV3MultiplyM3(m, v) ==
    [x |-> FAdd(FAdd(FMul(m[0], v.x), FMul(m[1], v.y)), FMul(m[2], v.z)),
     y |-> FAdd(FAdd(FMul(m[3], v.x), FMul(m[4], v.y)), FMul(m[5], v.z)),
     z |-> FAdd(FAdd(FMul(m[6], v.x), FMul(m[7], v.y)), FMul(m[8], v.z))]

(***************************************************************************)
(* binary32 in memory, and the conversions memset applies to its value.    *)
(***************************************************************************)
\* (int) n: truncation towards zero, for a finite n within the range of int
ToInt(a) ==
    IF a.exp >= 0 THEN Sign(a.num) * ((Abs(a.num) * Pow2(a.exp)) \div a.den)
    ELSE Sign(a.num) * (Abs(a.num) \div (a.den * Pow2(-a.exp)))

\* (unsigned char) c
ToUChar(c) == c % 256

\* the seFloat stored in four bytes, b[4] holding the sign and the high
\* exponent bits (with four equal bytes the byte order plays no part)
F32Value(b) ==
    LET sign == b[4] \div 128
        expo == (b[4] % 128) * 2 + b[3] \div 128
        mant == (b[3] % 128) * 65536 + b[2] * 256 + b[1]
        sg   == IF sign = 1 THEN -1 ELSE 1
    IN  IF expo = 255 THEN (IF mant = 0 THEN Norm(sg, 0, 0) ELSE NaN)
        ELSE IF expo = 0 THEN Norm(sg * mant, 1, -149)
        ELSE Norm(sg * (8388608 + mant), 1, expo - 150)

(***************************************************************************)
(* 4x4 matrices (seMat4): functions on 0..15, element (r, c) at 4r + c.    *)
(***************************************************************************)
\* memset(&out.exp, n, sizeof(out.exp))
seM4Fill(n) ==
    LET c == ToUChar(ToInt(n))
    IN  [i \in 0..15 |-> F32Value(<<c, c, c, c>>)]

\* entry (r, c) of the row-major product A.B
RowTimesColumn(A, B, r, c) ==
    FAdd(FAdd(FAdd(FMul(A[4 * r], B[c]), FMul(A[4 * r + 1], B[4 + c])),
              FMul(A[4 * r + 2], B[8 + c])), FMul(A[4 * r + 3], B[12 + c]))

\* seM4Multiply with the operands taken in the other order (B.A)
seM4MultiplyBA(A, B) ==
    [i \in 0..15 |-> RowTimesColumn(B, A, i \div 4, i % 4)]

\* seM4Multiply with a slip in one of the sixteen lines: out.e[6] reads
\* B.e[15] where it should read B.e[14]
seM4MultiplySlip(A, B) ==
    [i \in 0..15 |->
        IF i = 6
        THEN FAdd(FAdd(FAdd(FMul(A[4], B[2]), FMul(A[5], B[6])),
                       FMul(A[6], B[10])), FMul(A[7], B[15]))
        ELSE RowTimesColumn(A, B, i \div 4, i % 4)]

seM4Multiply(A, B) ==
    LET P(a0, b0, a1, b1, a2, b2, a3, b3) ==
            FAdd(FAdd(FAdd(FMul(A[a0], B[b0]), FMul(A[a1], B[b1])),
                      FMul(A[a2], B[b2])), FMul(A[a3], B[b3]))
        out == <<P(0, 0, 1, 4, 2, 8, 3, 12),
               P(0, 1, 1, 5, 2, 9, 3, 13),
               P(0, 2, 1, 6, 2, 10, 3, 14),
               P(0, 3, 1, 7, 2, 11, 3, 15),
               P(4, 0, 5, 4, 6, 8, 7, 12),
               P(4, 1, 5, 5, 6, 9, 7, 13),
               P(4, 2, 5, 6, 6, 10, 7, 14),
               P(4, 3, 5, 7, 6, 11, 7, 15),
               P(8, 0, 9, 4, 10, 8, 11, 12),
               P(8, 1, 9, 5, 10, 9, 11, 13),
               P(8, 2, 9, 6, 10, 10, 11, 14),
               P(8, 3, 9, 7, 10, 11, 11, 15),
               P(12, 0, 13, 4, 14, 8, 15, 12),
               P(12, 1, 13, 5, 14, 9, 15, 13),
               P(12, 2, 13, 6, 14, 10, 15, 14),
               P(12, 3, 13, 7, 14, 11, 15, 15)>>
    IN  [i \in 0..15 |-> out[i + 1]]

\* seM4Identity without the assignment to out.e[15]
seM4IdentityNoW ==
    [seM4Fill(Zero) EXCEPT ![0] = One, ![5] = One, ![10] = One]

seM4Identity ==
    [seM4Fill(Zero) EXCEPT ![0] = One, ![5] = One, ![10] = One, ![15] = One]

seM4Scale(x, y, z) ==
    [seM4Fill(Zero) EXCEPT ![0] = x, ![5] = y, ![10] = z, ![15] = One]

seM4Translate(x, y, z) ==
    [seM4Fill(Zero) EXCEPT ![3] = x, ![7] = y, ![11] = z,
                           ![0] = One, ![5] = One, ![10] = One, ![15] = One]

\* cos and sin of an angle given in degrees, exact on the multiples of 90
\* (the only angles of the model)
QuarterTurns(t) == (ToInt(t) \div 90) % 4

CosDeg(t) == Flt(<<1, 0, -1, 0>>[QuarterTurns(t) + 1])

SinDeg(t) == Flt(<<0, 1, 0, -1>>[QuarterTurns(t) + 1])

\* seM4LookAt with out.e[11] negated like out.e[3] and out.e[7]
seM4LookAtNegatedZ(eye, center, up) ==
    LET f == seV3Normalize(seV3Subtract(center, eye))
        s == seV3Normalize(seV3Cross(f, up))
        u == seV3Cross(s, f)
        out == <<s.x, s.y, s.z, FNeg(seV3Dot(s, eye)),
                 u.x, u.y, u.z, FNeg(seV3Dot(u, eye)),
                 FNeg(f.x), FNeg(f.y), FNeg(f.z), FNeg(seV3Dot(f, eye)),
                 Zero, Zero, Zero, One>>
    IN  [i \in 0..15 |-> out[i + 1]]

seM4LookAt(eye, center, up) ==
    LET f == seV3Normalize(seV3Subtract(center, eye))
        s == seV3Normalize(seV3Cross(f, up))
        u == seV3Cross(s, f)
        out == <<s.x, s.y, s.z, FNeg(seV3Dot(s, eye)),
                 u.x, u.y, u.z, FNeg(seV3Dot(u, eye)),
                 FNeg(f.x), FNeg(f.y), FNeg(f.z), seV3Dot(f, eye),
                 Zero, Zero, Zero, One>>
    IN  [i \in 0..15 |-> out[i + 1]]

\* seM4RotateEuler with a sign slip in out.e[2] (-sy for sy)
seM4RotateEulerSignSlip(x, y, z) ==
    LET cx == CosDeg(x)
        sx == SinDeg(x)
        cy == CosDeg(y)
        sy == SinDeg(y)
        cz == CosDeg(z)
        sz == SinDeg(z)
        out == <<FMul(cy, cz),
                 FMul(FNeg(cy), sz),
                 FNeg(sy),
                 Zero,
                 FAdd(FMul(FMul(sx, sy), cz), FMul(cx, sz)),
                 FAdd(FMul(FMul(FNeg(sx), sy), sz), FMul(cx, cz)),
                 FMul(FNeg(sx), cy),
                 Zero,
                 FAdd(FMul(FMul(FNeg(cx), sy), cz), FMul(sx, sz)),
                 FAdd(FMul(FMul(cx, sy), sz), FMul(sx, cz)),
                 FMul(cx, cy),
                 Zero,
                 Zero, Zero, Zero, One>>
    IN  [i \in 0..15 |-> out[i + 1]]

seM4RotateEuler(x, y, z) ==
    LET cx == CosDeg(x)
        sx == SinDeg(x)
        cy == CosDeg(y)
        sy == SinDeg(y)
        cz == CosDeg(z)
        sz == SinDeg(z)
        out == <<FMul(cy, cz),
                 FMul(FNeg(cy), sz),
                 sy,
                 Zero,
                 FAdd(FMul(FMul(sx, sy), cz), FMul(cx, sz)),
                 FAdd(FMul(FMul(FNeg(sx), sy), sz), FMul(cx, cz)),
                 FMul(FNeg(sx), cy),
                 Zero,
                 FAdd(FMul(FMul(FNeg(cx), sy), cz), FMul(sx, sz)),
                 FAdd(FMul(FMul(cx, sy), sz), FMul(sx, cz)),
                 FMul(cx, cy),
                 Zero,
                 Zero, Zero, Zero, One>>
    IN  [i \in 0..15 |-> out[i + 1]]

seM4RotateAA(axis, t) ==
    LET v == seV3Normalize(axis)
        c == CosDeg(t)
        s == SinDeg(t)
        k == FSub(One, c)
        out == <<FAdd(c, FMul(FMul(v.x, v.x), k)),
                 FAdd(FMul(FNeg(v.z), s), FMul(FMul(v.x, v.y), k)),
                 FAdd(FMul(v.y, s), FMul(FMul(v.x, v.z), k)),
                 Zero,
                 FAdd(FMul(v.z, s), FMul(FMul(v.y, v.x), k)),
                 FAdd(c, FMul(FMul(v.y, v.y), k)),
                 FAdd(FMul(FNeg(v.x), s), FMul(FMul(v.y, v.z), k)),
                 Zero,
                 FAdd(FMul(FNeg(v.y), s), FMul(FMul(v.z, v.x), k)),
                 FAdd(FMul(v.x, s), FMul(FMul(v.z, v.y), k)),
                 FAdd(c, FMul(FMul(v.z, v.z), k)),
                 Zero,
                 Zero, Zero, Zero, One>>
    IN  [i \in 0..15 |-> out[i + 1]]

(***************************************************************************)
(* The state: the arguments of a call, the label of the last call made,    *)
(* and the values returned.  Every operation of the library is a pure      *)
(* function, so an action is one call: it reads the argument registers and *)
(* writes a result register.                                               *)
(***************************************************************************)
VARIABLES pc, n, va, vb, vc, mA, mB, mC, vres, vres2, mres, mres2

vars == <<pc, n, va, vb, vc, mA, mB, mC, vres, vres2, mres, mres2>>

V3(x, y, z) == seV3Assign(Flt(x), Flt(y), Flt(z))

ZeroV == V3(0, 0, 0)

ZeroM == [i \in 0..15 |-> Zero]

Coords == -MaxCoord..MaxCoord

Box == {V3(x, y, z) : x \in Coords, y \in Coords, z \in Coords}

\* the vectors whose length sqrtf computes exactly
ExactVecs == {v \in Box : HasExactSqrt(seV3Dot(v, v))}

IdleVectors == va = ZeroV /\ vb = ZeroV /\ vc = ZeroV /\ vres = ZeroV /\ vres2 = ZeroV

IdleMatrices == mA = ZeroM /\ mB = ZeroM /\ mC = ZeroM

(***************************************************************************)
(* SpecFill: seM4Fill and the constructors built on it.                    *)
(***************************************************************************)
FillInputs == {Ratio(k, 2) : k \in (-2 * MaxFill)..(2 * MaxFill)}

InitFill ==
    /\ pc = "start"
    /\ n \in FillInputs
    /\ IdleVectors /\ IdleMatrices
    /\ mres = ZeroM /\ mres2 = ZeroM

Fill ==
    /\ pc = "start"
    /\ mres' = seM4Fill(n)
    /\ pc' = "seM4Fill"
    /\ UNCHANGED <<n, va, vb, vc, mA, mB, mC, vres, vres2, mres2>>

Identity ==
    /\ pc = "start"
    /\ mres' = seM4Identity
    /\ pc' = "seM4Identity"
    /\ UNCHANGED <<n, va, vb, vc, mA, mB, mC, vres, vres2, mres2>>

ScaleMatrix ==
    /\ pc = "start"
    /\ mres' = seM4Scale(n, n, n)
    /\ pc' = "seM4Scale"
    /\ UNCHANGED <<n, va, vb, vc, mA, mB, mC, vres, vres2, mres2>>

TranslateMatrix ==
    /\ pc = "start"
    /\ mres' = seM4Translate(n, n, n)
    /\ pc' = "seM4Translate"
    /\ UNCHANGED <<n, va, vb, vc, mA, mB, mC, vres, vres2, mres2>>

NextFill == Fill \/ Identity \/ ScaleMatrix \/ TranslateMatrix

SpecFill == InitFill /\ [][NextFill]_vars

\* C1: for every scalar n, each of the 16 elements of seM4Fill(n) equals n
\* as a scalar value (the C comparison out.exp[i] == n holds).
FillSetsEveryElement ==
    pc = "seM4Fill" => \A i \in 0..15 : FEq(mres[i], n)

\* what the byte fill does give: every element is the float whose four
\* bytes are all (unsigned char)(int)n, which is n when n is 0
FillRepeatsByte ==
    pc = "seM4Fill" =>
        /\ \A i \in 0..15 : mres[i] = F32Value([j \in 1..4 |-> ToInt(n) % 256])
        /\ (n = Zero => \A i \in 0..15 : mres[i] = Zero)

(***************************************************************************)
(* SpecMul: seM4Multiply on its own results and on seM4Identity.           *)
(* The unit matrices span all 4x4 matrices and the product is linear in    *)
(* each argument; the dense matrices have pairwise different entries.      *)
(***************************************************************************)
Unit(i, v) == [ZeroM EXCEPT ![i] = Flt(v)]

Dense1 == [i \in 0..15 |-> Flt(i + 1)]

Dense2 == [i \in 0..15 |-> Flt(((7 * i + 3) % 16) - 8)]

MatInputs ==
    {Unit(i, v) : i \in 0..15, v \in 1..MaxEntry}
        \cup {Dense1, Dense2, seM4Translate(Flt(1), Flt(2), Flt(3))}

InitMul ==
    /\ pc = "start"
    /\ n = Zero
    /\ IdleVectors
    /\ mA \in MatInputs /\ mB \in MatInputs /\ mC \in MatInputs
    /\ mres = ZeroM /\ mres2 = ZeroM

MultiplyAB ==
    /\ pc = "start"
    /\ mres' = seM4Multiply(mA, mB)
    /\ pc' = "AB"
    /\ UNCHANGED <<n, va, vb, vc, mA, mB, mC, vres, vres2, mres2>>

MultiplyABthenC ==
    /\ pc = "AB"
    /\ mres' = seM4Multiply(mres, mC)
    /\ pc' = "(AB)C"
    /\ UNCHANGED <<n, va, vb, vc, mA, mB, mC, vres, vres2, mres2>>

MultiplyBC ==
    /\ pc = "(AB)C"
    /\ mres2' = seM4Multiply(mB, mC)
    /\ pc' = "BC"
    /\ UNCHANGED <<n, va, vb, vc, mA, mB, mC, vres, vres2, mres>>

MultiplyAthenBC ==
    /\ pc = "BC"
    /\ mres2' = seM4Multiply(mA, mres2)
    /\ pc' = "A(BC)"
    /\ UNCHANGED <<n, va, vb, vc, mA, mB, mC, vres, vres2, mres>>

MultiplyIA ==
    /\ pc = "start"
    /\ mres' = seM4Multiply(seM4Identity, mA)
    /\ pc' = "IA"
    /\ UNCHANGED <<n, va, vb, vc, mA, mB, mC, vres, vres2, mres2>>

MultiplyAI ==
    /\ pc = "start"
    /\ mres' = seM4Multiply(mA, seM4Identity)
    /\ pc' = "AI"
    /\ UNCHANGED <<n, va, vb, vc, mA, mB, mC, vres, vres2, mres2>>

NextMul ==
    \/ MultiplyAB \/ MultiplyABthenC \/ MultiplyBC \/ MultiplyAthenBC
    \/ MultiplyIA \/ MultiplyAI

SpecMul == InitMul /\ [][NextMul]_vars

\* C2: element 4r+c of seM4Multiply(A, B) is the sum over k of
\* A.e[4r+k] * B.e[4k+c], the row-major product A.B.
MultiplyIsRowMajorProduct ==
    pc = "AB" =>
        \A r \in 0..3, c \in 0..3 : mres[4 * r + c] = RowTimesColumn(mA, mB, r, c)

\* C2 happens: a product of two matrices that do not commute, so that A.B
\* is told apart from B.A and from the transposed variants
MultiplyIsRowMajorProductWitness ==
    /\ pc = "AB"
    /\ mA = Dense1 /\ mB = Dense2
    /\ \E i \in 0..15 : mres[i] # RowTimesColumn(mB, mA, i \div 4, i % 4)
    /\ \E i \in 0..15 : mres[i] # RowTimesColumn(mA, mB, i % 4, i \div 4)

\* C3: seM4Identity is fill(0) with elements 0, 5, 10, 15 set to 1, and
\* multiplying by it on either side gives the matrix back.
IdentityIsNeutral ==
    pc \in {"IA", "AI"} =>
        /\ \A i \in 0..15 :
              seM4Identity[i] = IF i \in {0, 5, 10, 15} THEN One ELSE Zero
        /\ \A i \in 0..15 : mres[i] = mA[i]

IdentityIsNeutralWitness ==
    pc \in {"IA", "AI"} /\ mA = Dense2 /\ mres = Dense2

\* C4: (A.B).C and A.(B.C) computed by seM4Multiply agree element for
\* element.
MultiplyIsAssociative ==
    pc = "A(BC)" => \A i \in 0..15 : mres[i] = mres2[i]

MultiplyIsAssociativeWitness ==
    /\ pc = "A(BC)"
    /\ mA = Dense1 /\ mB = Dense2 /\ mC = seM4Translate(Flt(1), Flt(2), Flt(3))
    /\ mres = mres2
    /\ mres # seM4Multiply(mA, seM4Multiply(mC, mB))

(***************************************************************************)
(* SpecCross: seV3Cross on a pair of vectors, in both orders.              *)
(***************************************************************************)
InitCross ==
    /\ pc = "start"
    /\ n = Zero
    /\ va \in Box /\ vb \in Box
    /\ vc = ZeroV /\ vres = ZeroV /\ vres2 = ZeroV
    /\ IdleMatrices
    /\ mres = ZeroM /\ mres2 = ZeroM

CrossAB ==
    /\ pc = "start"
    /\ vres' = seV3Cross(va, vb)
    /\ pc' = "a x b"
    /\ UNCHANGED <<n, va, vb, vc, mA, mB, mC, vres2, mres, mres2>>

CrossBA ==
    /\ pc = "a x b"
    /\ vres2' = seV3Cross(vb, va)
    /\ pc' = "b x a"
    /\ UNCHANGED <<n, va, vb, vc, mA, mB, mC, vres, mres, mres2>>

NextCross == CrossAB \/ CrossBA

SpecCross == InitCross /\ [][NextCross]_vars

\* C5: each component of seV3Cross(a, b) is the negation of the same
\* component of seV3Cross(b, a), and seV3Cross(a, a) is (0, 0, 0).
CrossIsAntiCommutative ==
    /\ pc = "b x a" =>
          /\ FEq(vres.x, FNeg(vres2.x))
          /\ FEq(vres.y, FNeg(vres2.y))
          /\ FEq(vres.z, FNeg(vres2.z))
    /\ (pc \in {"a x b", "b x a"} /\ va = vb) => vres = ZeroV

\* C5 happens: both products taken of two vectors that are not parallel
CrossIsAntiCommutativeWitness ==
    /\ pc = "b x a"
    /\ va = V3(1, 2, -1) /\ vb = V3(-2, 1, 2)
    /\ vres = V3(5, 0, 5) /\ vres2 = V3(-5, 0, -5)

(***************************************************************************)
(* SpecScale: seV3Normalize and seV3Scale, the latter on two vectors with  *)
(* the same factor.                                                        *)
(***************************************************************************)
Lens == {Ratio(k, 2) : k \in (-2 * MaxLen)..(2 * MaxLen)}

InitScale ==
    /\ pc = "start"
    /\ n \in Lens
    /\ va \in ExactVecs /\ vb \in ExactVecs
    /\ vc = ZeroV /\ vres = ZeroV /\ vres2 = ZeroV
    /\ IdleMatrices
    /\ mres = ZeroM /\ mres2 = ZeroM

Normalize ==
    /\ pc = "start"
    /\ vres' = seV3Normalize(va)
    /\ pc' = "seV3Normalize"
    /\ UNCHANGED <<n, va, vb, vc, mA, mB, mC, vres2, mres, mres2>>

ScaleA ==
    /\ pc = "start"
    /\ vres' = seV3Scale(va, n)
    /\ pc' = "scale a"
    /\ UNCHANGED <<n, va, vb, vc, mA, mB, mC, vres2, mres, mres2>>

ScaleB ==
    /\ pc = "scale a"
    /\ vres2' = seV3Scale(vb, n)
    /\ pc' = "scale b"
    /\ UNCHANGED <<n, va, vb, vc, mA, mB, mC, vres, mres, mres2>>

NextScale == Normalize \/ ScaleA \/ ScaleB

SpecScale == InitScale /\ [][NextScale]_vars

Times(v, k) == [x |-> FMul(v.x, k), y |-> FMul(v.y, k), z |-> FMul(v.z, k)]

\* w = k * v for some k > 0
SameDirection(v, w) ==
    /\ seV3Cross(v, w) = ZeroV
    /\ seV3Dot(v, w).num > 0

Angles == {Flt(90 * k) : k \in -MaxTurns..MaxTurns}

\* the seMat3 a caller copies out of rows 0..2, columns 0..2 of a seMat4
UpperLeft3(m) == [i \in 0..8 |-> m[4 * (i \div 3) + (i % 3)]]

InitRotateAA ==
    /\ pc = "start"
    /\ n \in Angles
    /\ va \in ExactVecs /\ vb \in ExactVecs
    /\ vc = ZeroV /\ vres = ZeroV /\ vres2 = ZeroV
    /\ IdleMatrices
    /\ mres = ZeroM /\ mres2 = ZeroM

RotateAA ==
    /\ pc = "start"
    /\ mres' = seM4RotateAA(va, n)
    /\ pc' = "seM4RotateAA"
    /\ UNCHANGED <<n, va, vb, vc, mA, mB, mC, vres, vres2, mres2>>

ApplyM3 ==
    /\ pc = "seM4RotateAA"
    /\ vres' = seV3MultiplyM3(UpperLeft3(mres), vb)
    /\ pc' = "seV3MultiplyM3"
    /\ UNCHANGED <<n, va, vb, vc, mA, mB, mC, vres2, mres, mres2>>

NextRotateAA == RotateAA \/ ApplyM3

SpecRotateAA == InitRotateAA /\ [][NextRotateAA]_vars

\* the coordinate axes e_0 = x, e_1 = y, e_2 = z
AxisE(i) == V3(IF i = 0 THEN 1 ELSE 0, IF i = 1 THEN 1 ELSE 0, IF i = 2 THEN 1 ELSE 0)

\* C7: a quarter turn (cos = 0, sin = 1) about the coordinate axis e_i maps
\* e_(i+1) to e_(i+2), cyclically, and leaves e_i fixed: the rotation is
\* right-handed.
QuarterTurnIsRightHanded ==
    \A i \in 0..2 :
        (/\ pc = "seV3MultiplyM3"
         /\ SameDirection(AxisE(i), va)
         /\ CosDeg(n) = Zero /\ SinDeg(n) = One) =>
            /\ vb = AxisE((i + 1) % 3) => vres = AxisE((i + 2) % 3)
            /\ vb = AxisE(i) => vres = AxisE(i)

\* C7 happens: (1,0,0), 90 degrees, applied to (0,1,0), gives (0,0,1)
QuarterTurnIsRightHandedWitness ==
    /\ pc = "seV3MultiplyM3"
    /\ va = V3(1, 0, 0) /\ n = Flt(90) /\ vb = V3(0, 1, 0)
    /\ vres = V3(0, 0, 1)

(***************************************************************************)
(* SpecEuler: seM4RotateEuler, and the same rotation composed from three   *)
(* seM4RotateAA about the coordinate axes with seM4Multiply.               *)
(***************************************************************************)
InitEuler ==
    /\ pc = "start"
    /\ n = Zero
    /\ va = ZeroV /\ vb = ZeroV
    /\ vc \in {seV3Assign(x, y, z) : x \in Angles, y \in Angles, z \in Angles}
    /\ vres = ZeroV /\ vres2 = ZeroV
    /\ IdleMatrices
    /\ mres = ZeroM /\ mres2 = ZeroM

RotateEuler ==
    /\ pc = "start"
    /\ mres' = seM4RotateEuler(vc.x, vc.y, vc.z)
    /\ pc' = "seM4RotateEuler"
    /\ UNCHANGED <<n, va, vb, vc, mA, mB, mC, vres, vres2, mres2>>

RotateZ ==
    /\ pc = "seM4RotateEuler"
    /\ mres2' = seM4RotateAA(AxisE(2), vc.z)
    /\ pc' = "Rz"
    /\ UNCHANGED <<n, va, vb, vc, mA, mB, mC, vres, vres2, mres>>

RotateYZ ==
    /\ pc = "Rz"
    /\ mres2' = seM4Multiply(seM4RotateAA(AxisE(1), vc.y), mres2)
    /\ pc' = "Ry.Rz"
    /\ UNCHANGED <<n, va, vb, vc, mA, mB, mC, vres, vres2, mres>>

RotateXYZ ==
    /\ pc = "Ry.Rz"
    /\ mres2' = seM4Multiply(seM4RotateAA(AxisE(0), vc.x), mres2)
    /\ pc' = "Rx.Ry.Rz"
    /\ UNCHANGED <<n, va, vb, vc, mA, mB, mC, vres, vres2, mres>>

NextEuler == RotateEuler \/ RotateZ \/ RotateYZ \/ RotateXYZ

SpecEuler == InitEuler /\ [][NextEuler]_vars

\* C10: for angles that are multiples of 90 degrees seM4RotateEuler(x, y, z)
\* equals Rx.Ry.Rz built by seM4Multiply from seM4RotateAA about the x, y
\* and z axes, and its fourth row and fourth column are (0, 0, 0, 1).
EulerIsRxRyRz ==
    /\ pc = "Rx.Ry.Rz" => \A i \in 0..15 : mres[i] = mres2[i]
    /\ pc # "start" =>
          /\ \A i \in {3, 7, 11, 12, 13, 14} : mres[i] = Zero
          /\ mres[15] = One

\* C10 happens: three quarter turns, whose order matters
EulerIsRxRyRzWitness ==
    /\ pc = "Rx.Ry.Rz"
    /\ vc = seV3Assign(Flt(90), Flt(90), Flt(-90))
    /\ mres = mres2
    /\ mres # seM4Multiply(seM4RotateAA(AxisE(2), vc.z),
                           seM4Multiply(seM4RotateAA(AxisE(1), vc.y),
                                        seM4RotateAA(AxisE(0), vc.x)))

(***************************************************************************)
(* SpecView: seM4LookAt, and the normalising operations it shares its      *)
(* degenerate inputs with (seV3Normalize, seV3Scale, seM4RotateAA), on     *)
(* vectors that include the zero vector, eye = center and front parallel   *)
(* to up.                                                                  *)
(***************************************************************************)
AxisVecs == {ZeroV} \cup {Times(AxisE(i), Flt(k)) : i \in 0..2, k \in {-1, 1}}

\* the arguments on which both sqrtf calls of seM4LookAt are exact
LookAtExact(eye, center, up) ==
    LET d == seV3Subtract(center, eye)
        c == seV3Cross(seV3Normalize(d), up)
    IN  HasExactSqrt(seV3Dot(d, d)) /\ HasExactSqrt(seV3Dot(c, c))

InitView ==
    /\ pc = "start"
    /\ n \in Angles
    /\ va \in ExactVecs /\ vb \in AxisVecs /\ vc \in AxisVecs
    /\ LookAtExact(va, vb, vc)
    /\ vres = ZeroV /\ vres2 = ZeroV
    /\ IdleMatrices
    /\ mres = ZeroM /\ mres2 = ZeroM

LookAt ==
    /\ pc = "start"
    /\ mres' = seM4LookAt(va, vb, vc)
    /\ pc' = "seM4LookAt"
    /\ UNCHANGED <<n, va, vb, vc, mA, mB, mC, vres, vres2, mres2>>

NextView == LookAt \/ Normalize \/ ScaleA \/ RotateAA

SpecView == InitView /\ [][NextView]_vars

\* the seMat4 with the given rows
Rows4(r0, r1, r2, r3) == [i \in 0..15 |-> Flt(<<r0, r1, r2, r3>>[(i \div 4) + 1][(i % 4) + 1])]

\* component r of the matrix m applied to the homogeneous point (v, 1)
ApplyToPoint(m, v, r) ==
    FAdd(FAdd(FAdd(FMul(m[4 * r], v.x), FMul(m[4 * r + 1], v.y)),
              FMul(m[4 * r + 2], v.z)), FMul(m[4 * r + 3], One))

AllFinite(v) == IsFinite(v.x) /\ IsFinite(v.y) /\ IsFinite(v.z)

AllNaN(v) == IsNaN(v.x) /\ IsNaN(v.y) /\ IsNaN(v.z)

\* C8: for d > 0, seM4LookAt((0,0,d), (0,0,0), (0,1,0)) has front (0,0,-1),
\* side (1,0,0), trueUp (0,1,0) and is the matrix with rows (1,0,0,0),
\* (0,1,0,0), (0,0,1,-d), (0,0,0,1); in general rows 0, 1, 2 hold side,
\* trueUp, -front and the fourth column -dot(side,eye), -dot(trueUp,eye),
\* +dot(front,eye); the matrix maps the point (eye, 1) to (0,0,0,1).
LookAtDownNegativeZ ==
    pc = "seM4LookAt" =>
        LET f == seV3Normalize(seV3Subtract(vb, va))
            s == seV3Normalize(seV3Cross(f, vc))
            u == seV3Cross(s, f)
        IN  /\ (AllFinite(f) /\ AllFinite(s)) =>
                  /\ <<mres[0], mres[1], mres[2]>> = <<s.x, s.y, s.z>>
                  /\ <<mres[4], mres[5], mres[6]>> = <<u.x, u.y, u.z>>
                  /\ <<mres[8], mres[9], mres[10]>> = <<FNeg(f.x), FNeg(f.y), FNeg(f.z)>>
                  /\ mres[3] = FNeg(seV3Dot(s, va))
                  /\ mres[7] = FNeg(seV3Dot(u, va))
                  /\ mres[11] = seV3Dot(f, va)
                  /\ <<mres[12], mres[13], mres[14], mres[15]>> = <<Zero, Zero, Zero, One>>
                  /\ \A r \in 0..3 :
                        ApplyToPoint(mres, va, r) = IF r = 3 THEN One ELSE Zero
            /\ (/\ va.x = Zero /\ va.y = Zero /\ va.z.num > 0
                /\ vb = ZeroV /\ vc = V3(0, 1, 0)) =>
                  /\ f = V3(0, 0, -1) /\ s = V3(1, 0, 0) /\ u = V3(0, 1, 0)
                  /\ \A i \in 0..15 :
                        mres[i] = IF i = 11 THEN FNeg(va.z)
                                  ELSE IF i \in {0, 5, 10, 15} THEN One ELSE Zero

\* C8 happens: the camera on the +z axis at distance 2, looking at the origin
LookAtDownNegativeZWitness ==
    /\ pc = "seM4LookAt"
    /\ va = V3(0, 0, 2) /\ vb = ZeroV /\ vc = V3(0, 1, 0)
    /\ mres = Rows4(<<1, 0, 0, 0>>, <<0, 1, 0, 0>>, <<0, 0, 1, -2>>, <<0, 0, 0, 1>>)

\* C9: seV3Normalize returns a value for every vector: all NaN for the
\* zero vector, a finite vector of length 1 otherwise.  The NaN goes
\* unguarded into the values returned by seV3Scale, seM4RotateAA (zero
\* axis) and seM4LookAt (eye = center, or front parallel to up).
NormalizeZeroIsNaN ==
    /\ (pc = "seV3Normalize" /\ va = ZeroV) => AllNaN(vres)
    /\ (pc = "seV3Normalize" /\ va # ZeroV) =>
          AllFinite(vres) /\ seV3Length(vres) = One
    /\ (pc = "scale a" /\ va = ZeroV) => AllNaN(vres)
    /\ (pc = "seM4RotateAA" /\ va = ZeroV) =>
          \A i \in {0, 1, 2, 4, 5, 6, 8, 9, 10} : IsNaN(mres[i])
    /\ (pc = "seM4LookAt" /\ va = vb) => \A i \in 0..11 : IsNaN(mres[i])
    /\ (pc = "seM4LookAt" /\ va # vb
          /\ seV3Cross(seV3Subtract(vb, va), vc) = ZeroV) =>
          \A i \in 0..7 : IsNaN(mres[i])

\* C9 happens: the zero vector has been normalised
NormalizeZeroIsNaNWitness ==
    /\ pc = "seV3Normalize" /\ va = ZeroV
    /\ vres = seV3Assign(NaN, NaN, NaN)

=============================================================================
